---- MODULE Spec2Model ----
(***************************************************************************)
(* Model of the preprocessing pipeline of src/preprocess.py: main() and    *)
(* the stage functions it calls.  One run of main() is a sequence of       *)
(* actions; the working directory (the two checkpoint files) survives a    *)
(* run, so that a later run can resume from what an earlier run wrote.     *)
(***************************************************************************)
EXTENDS Integers, Sequences, FiniteSets, TLC

\* Bounds of the model.
MaxFiles == 2      \* entries of the submissions directory
MaxRuns == 2       \* invocations of main() in one behaviour

\* ------------------------------------------------------------------------
\* Values
\* ------------------------------------------------------------------------

\* argparse stores None for an option that was not given.
None == "<None>"

\* Python truth value of an argparse string option: None and "" are false.
Truthy(v) == v # None /\ v # ""

\* The two fixed checkpoint paths and a path nothing ever writes.
CLEANED == "case_cleaned.p"
PHENOMIZED == "case_phenomized.p"
MISSING == "missing.p"
CheckpointPaths == {CLEANED, PHENOMIZED}

\* A directory entry: a .json file whose structural check passes ("pass"),
\* a .json file whose check fails ("fail"), or a file of another extension.
EntryKinds == {"pass", "fail", "txt"}

\* Identity of the file given with --single; directory files are 1..MaxFiles.
SingleId == MaxFiles + 1

\* Values of the command line.
SingleValues == {None, "", "single.json"}
PickleValues == {None, "", CLEANED, PHENOMIZED, MISSING}
EntryValues == {"pheno", "convert"}
OutputValues == {"", "outdir"}
ArgSets == [single : SingleValues, pickle : PickleValues,
            entry : EntryValues, output : OutputValues]

\* The configuration options main() and its stages read.
ConfigSets == [download : BOOLEAN, dump_intermediate : BOOLEAN]
CorrectedLocation == "corrected_dir"
ConfigOutputPath == "cfg_out"

RECURSIVE SeqsUpTo(_, _)
SeqsUpTo(S, n) ==
    IF n = 0 THEN {<<>>}
    ELSE LET shorter == SeqsUpTo(S, n - 1)
         IN shorter \cup {Append(s, x) : s \in {t \in shorter : Len(t) = n - 1}, x \in S}

B2N(b) == IF b THEN 1 ELSE 0
N2B(n) == n = 1

\* ------------------------------------------------------------------------
\* State
\* ------------------------------------------------------------------------
VARIABLES
    disk,        \* checkpoint path -> [exists, bytes]
    stored,      \* checkpoint path -> the collection last dumped to it
    disk0,       \* disk when the current run started
    dirFiles,    \* listing of <download_location>/cases, in os.listdir order
    runs,        \* number of the current invocation of main()
    args,        \* parsed command line of the current run
    cfg,         \* configuration of the current run
    pc,          \* position of the current run in main()
    raised,      \* an exception has propagated out of main()
    fault,       \* which external call of this run raised (0: none)
    json_files,  \* create_jsons: the input file list
    new_json_objs, \* create_jsons: the submissions loaded from json_files
    corrected,   \* create_jsons: the override directory handed to from_file
    printed,     \* the counts create_jsons printed
    jsons,       \* the filtered submissions
    cases,       \* the case collection threaded through the stages
    loaded,      \* what pickle.load returned in this run (<<>> in a fresh run)
    records,     \* legacy records saved by this run
    log,         \* side effects of this run, in order
    handles      \* checkpoint paths the process holds an open file object for

vars == <<disk, stored, disk0, dirFiles, runs, args, cfg, pc, raised, fault,
          json_files, new_json_objs, corrected, printed, jsons, cases, loaded,
          records, log, handles>>

\* A side effect; id is the file or case it concerns, 0 when it concerns none.
Ev(op, id) == [op |-> op, id |-> id]

\* ------------------------------------------------------------------------
\* Checkpoint store: pickle.dump / pickle.load
\* ------------------------------------------------------------------------

\* A case as the pipeline sees it: its identity, whether the batch
\* reference-transcript correction has run over it, and whether it carries
\* the phenotype scores Case.phenomize attaches.
NewCase(id) == [id |-> id, corrected |-> FALSE, pheno |-> FALSE]

RECURSIVE Flatten(_)
Flatten(cs) ==
    IF cs = <<>> THEN <<>>
    ELSE <<Head(cs).id, B2N(Head(cs).corrected), B2N(Head(cs).pheno)>> \o Flatten(Tail(cs))

RECURSIVE Flatten_no_pheno(_)
Flatten_no_pheno(cs) ==
    IF cs = <<>> THEN <<>>
    ELSE <<Head(cs).id, B2N(Head(cs).corrected), 0>> \o Flatten_no_pheno(Tail(cs))

\* A serialization that loses the phenotype data of the cases.
pickle_dumps_no_pheno(cs) == <<128, Len(cs)>> \o Flatten_no_pheno(cs) \o <<46>>

\* A serialization that records every case as it is after phenomization.
pickle_dumps_after_pheno(cs) ==
    <<128, Len(cs)>>
    \o Flatten([k \in 1..Len(cs) |-> [cs[k] EXCEPT !.pheno = TRUE]])
    \o <<46>>

\* pickle.dumps of a list of cases: protocol header, the length of the
\* list, the fields of each case in list order, the STOP opcode.
pickle_dumps(cs) == <<128, Len(cs)>> \o Flatten(cs) \o <<46>>

RECURSIVE Unflatten(_, _)
Unflatten(bytes, n) ==
    IF n = 0 THEN <<>>
    ELSE <<[id |-> bytes[1], corrected |-> N2B(bytes[2]), pheno |-> N2B(bytes[3])]>>
         \o Unflatten(SubSeq(bytes, 4, Len(bytes)), n - 1)

\* A byte string pickle.loads accepts.
Unpicklable(bytes) ==
    /\ Len(bytes) >= 3
    /\ bytes[1] = 128
    /\ bytes[Len(bytes)] = 46
    /\ Len(bytes) = 3 + 3 * bytes[2]

pickle_loads(bytes) == Unflatten(SubSeq(bytes, 3, Len(bytes) - 1), bytes[2])

NoFile == [exists |-> FALSE, bytes |-> <<>>]

\* pickle.dump(obj, open(path, 'wb')): the file is created or truncated
\* and holds the serialized object.
pickle_dump(d, path, cs) ==
    [d EXCEPT ![path] = [exists |-> TRUE, bytes |-> pickle_dumps(cs)]]

\* pickle.dump(obj, open(path, 'wb')) never closes the file object it opens:
\* the object is closed when the interpreter reclaims it, at once under
\* reference counting (reclaimed), at some later time or at exit otherwise.
open_unclosed(h, path, reclaimed) == IF reclaimed THEN h ELSE h \cup {path}

\* with open(path, 'rb') as f: the file object is closed when the block is
\* left, by return or by exception.
with_open(h, path) == h

\* open(path, 'rb') and pickle.load succeed on an existing, decodable file.
Loadable(d, path) == d[path].exists /\ Unpicklable(d[path].bytes)

pickle_load(d, path) == pickle_loads(d[path].bytes)

\* ------------------------------------------------------------------------
\* Stage helpers
\* ------------------------------------------------------------------------

\* The wrapper of lib.visual around a generator function: it runs the
\* generator to its end and returns the list of what it yielded (create_jsons
\* takes len() of the result; phenomize and convert_to_old_format never
\* iterate it themselves).  An exception of the generator propagates.
progress_bar(yielded) == yielded

Indices(s) == [k \in 1..Len(s) |-> k]
EventsOf(op, ids) == [k \in 1..Len(ids) |-> Ev(op, ids[k])]
Ids(s) == [k \in 1..Len(s) |-> s[k].id]

\* The .json entries of a listing, in listing order (by position).
JsonEntries(listing) ==
    SelectSeq(Indices(listing), LAMBDA k : listing[k] \in {"pass", "fail"})

\* json_from_directory: optional sync, the .json files of the listing, and
\* the override directory of the configuration.
json_from_directory(c, listing) ==
    [json_files |-> JsonEntries(listing),
     corrected |-> CorrectedLocation,
     effects |-> (IF c.download THEN <<Ev("sync", 0)>> ELSE <<>>)
                 \o <<Ev("listdir", 0), Ev("read_corrected_location", 0)>>]

\* A single-file mode that still hands the configured override directory on.
InputFiles_with_override(a, c, listing) ==
    IF Truthy(a.single)
    THEN [json_files |-> <<SingleId>>, corrected |-> CorrectedLocation,
          effects |-> <<Ev("read_corrected_location", 0)>>]
    ELSE json_from_directory(c, listing)

\* The first statement of create_jsons: the file list and the override
\* directory, from --single or from the directory.
InputFiles(a, c, listing) ==
    IF Truthy(a.single)
    THEN [json_files |-> <<SingleId>>, corrected |-> "", effects |-> <<>>]
    ELSE json_from_directory(c, listing)

\* yield_jsons: one NewJson.from_file per file, in file order.  ok[f] is
\* what the structural check of the submission loaded from f returns.
yield_jsons(files, ok) ==
    [k \in 1..Len(files) |-> [id |-> files[k], ok |-> ok[files[k]]]]

\* A filter that keeps every submission.
Check_keep_all(j) == TRUE

\* j.check()[0]
Check(j) == j.ok

\* A generator that loses the first submission.
yield_cases_drop_first(js) == [k \in 1..(Len(js) - 1) |-> NewCase(js[k + 1].id)]

\* yield_cases: one Case per submission, in order.
yield_cases(js) == [k \in 1..Len(js) |-> NewCase(js[k].id)]

\* A correction that stops after the first case.
correct_reference_transcripts_first_only(cs) ==
    [k \in 1..Len(cs) |-> IF k = 1 THEN [cs[k] EXCEPT !.corrected = TRUE] ELSE cs[k]]

\* mutalyzer.correct_reference_transcripts: one call over the whole list,
\* mutating the cases in place.
correct_reference_transcripts(cs) ==
    [k \in 1..Len(cs) |-> [cs[k] EXCEPT !.corrected = TRUE]]

\* general.dump_intermediate
DumpEnabled(c) == c.dump_intermediate

\* A loop that catches the exception of a service call and goes on.
yield_phenomized_swallow(cs, failAt) ==
    [cases |-> [k \in 1..Len(cs) |->
                 IF k # failAt THEN [cs[k] EXCEPT !.pheno = TRUE] ELSE cs[k]],
     calls |-> Ids(cs),
     raised |-> FALSE]

\* A loop that leaves out the last case.
yield_phenomized_skip_last(cs, failAt) ==
    LET m == IF Len(cs) = 0 THEN 0 ELSE Len(cs) - 1
        n == IF failAt = 0 \/ failAt > m THEN m ELSE failAt - 1
    IN [cases |-> [k \in 1..Len(cs) |->
                    IF k <= n THEN [cs[k] EXCEPT !.pheno = TRUE] ELSE cs[k]],
        calls |-> SubSeq(Ids(cs), 1, IF failAt = 0 \/ failAt > m THEN m ELSE failAt),
        raised |-> failAt # 0 /\ failAt <= m]

\* yield_phenomized: Case.phenomize on each case in order.  failAt = 0:
\* every service call returns; failAt = k: the call for the k-th case raises,
\* which ends the loop.
yield_phenomized(cs, failAt) ==
    LET n == IF failAt = 0 THEN Len(cs) ELSE failAt - 1
    IN [cases |-> [k \in 1..Len(cs) |->
                    IF k <= n THEN [cs[k] EXCEPT !.pheno = TRUE] ELSE cs[k]],
        calls |-> SubSeq(Ids(cs), 1, IF failAt = 0 THEN Len(cs) ELSE failAt),
        raised |-> failAt # 0]

\* destination = args.output or config_data.conversion["output_path"]
Destination(a) == IF Truthy(a.output) THEN a.output ELSE ConfigOutputPath

\* json.OldJson.from_case_object(case_obj, destination, omim_obj)
OldJson(c, dest) == [case |-> c, destination |-> dest]

\* A loop that stops one case short.
yield_old_json_skip_last(cs, dest, failAt) ==
    LET m == IF Len(cs) = 0 THEN 0 ELSE Len(cs) - 1
        n == IF failAt = 0 \/ failAt > m THEN m ELSE failAt - 1
    IN [saved |-> [k \in 1..n |-> OldJson(cs[k], dest)],
        raised |-> failAt # 0]

\* An export that removes what it wrote when a case fails.
yield_old_json_rollback(cs, dest, failAt) ==
    [saved |-> IF failAt = 0 THEN [k \in 1..Len(cs) |-> OldJson(cs[k], dest)] ELSE <<>>,
     raised |-> failAt # 0]

\* yield_old_json: build and save one record per case, in order.
\* failAt = k: building or saving the record of the k-th case raises.
yield_old_json(cs, dest, failAt) ==
    LET n == IF failAt = 0 THEN Len(cs) ELSE failAt - 1
    IN [saved |-> [k \in 1..n |-> OldJson(cs[k], dest)],
        raised |-> failAt # 0]

\* ------------------------------------------------------------------------
\* Initial state and the start of a run
\* ------------------------------------------------------------------------
NoFault == [phenomize |-> 0, export |-> 0, config |-> ""]

\* The settings main and its stages read from the configuration.
RequiredKeys ==
    {"general.download", "general.dump_intermediate", "aws.download_location",
     "preprocess.corrected_location", "preprocess.exclude_normal_variants",
     "conversion.output_path"}

\* A configuration manager that reports a missing setting only when the
\* setting is first read.
ConfigManagerRaises_on_first_use(missing) == FALSE

\* config.ConfigManager(): loading fails when a required setting is absent
\* (missing = "": none is).
ConfigManagerRaises(missing) == missing # ""

\* What parse_arguments returns for an empty command line, and the
\* configuration before config.ConfigManager() has read it.
DefaultArgs == [single |-> None, pickle |-> None, entry |-> "pheno", output |-> ""]
NoConfig == [download |-> FALSE, dump_intermediate |-> FALSE]

Init ==
    /\ disk = [p \in CheckpointPaths \cup {MISSING} |-> NoFile]
    /\ stored = [p \in CheckpointPaths \cup {MISSING} |-> <<>>]
    /\ disk0 = disk
    /\ runs = 1
    /\ args = DefaultArgs
    /\ cfg = NoConfig
    /\ pc = "main"
    /\ raised = FALSE
    /\ fault = NoFault
    /\ dirFiles = <<>>
    /\ json_files = <<>>
    /\ new_json_objs = <<>>
    /\ corrected = None
    /\ printed = <<>>
    /\ jsons = <<>>
    /\ cases = <<>>
    /\ loaded = <<>>
    /\ records = <<>>
    /\ log = <<>>
    /\ handles = {}

Terminated == raised \/ pc = "done"

\* ------------------------------------------------------------------------
\* main() and its stages
\* ------------------------------------------------------------------------

\* A branch test that reads the wrong option.
FreshBranch_wrong_option(a) == ~Truthy(a.single)

\* main, line 181: the fresh branch is taken when args.pickle is false.
FreshBranch(a) == ~Truthy(a.pickle)

\* An entry test that always passes.
EntryIsPheno_always(a) == TRUE

\* main, line 188: the phenomization stage runs when --entry is "pheno".
EntryIsPheno(a) == a.entry = "pheno"

\* An export that can be entered again after main has finished.
ConvertNext_again(p, a) ==
    \/ p = "convert"
    \/ p = "done"
    \/ p = "entry" /\ ~EntryIsPheno(a)

\* main, lines 188-191: convert_to_old_format is the statement after
\* phenomize, or after the entry test when that test fails.
ConvertNext(p, a) ==
    \/ p = "convert"
    \/ p = "entry" /\ ~EntryIsPheno(a)

\* main, lines 176-180: the configuration is loaded and the command line
\* parsed.
main_start ==
    /\ pc = "main" /\ ~raised
    /\ \E missing \in RequiredKeys \cup {""} :
         /\ fault' = [fault EXCEPT !.config = missing]
         /\ IF ConfigManagerRaises(missing)
            THEN /\ raised' = TRUE
                 /\ UNCHANGED <<cfg, args, pc>>
            ELSE /\ raised' = FALSE
                 /\ cfg' \in ConfigSets
                 /\ args' \in ArgSets
                 /\ pc' = "branch"
    /\ UNCHANGED <<disk, stored, disk0, dirFiles, runs, json_files,
                   new_json_objs, corrected, printed, jsons, cases, loaded,
                   records, log, handles>>

\* create_jsons, called from main line 182.
create_jsons ==
    /\ pc = "branch" /\ ~raised
    /\ FreshBranch(args)
    /\ \E listing \in SeqsUpTo(EntryKinds, MaxFiles), singleOk \in BOOLEAN :
         LET in == InputFiles(args, cfg, listing)
             ok == [f \in 1..SingleId |->
                      IF f = SingleId THEN singleOk
                      ELSE f <= Len(listing) /\ listing[f] = "pass"]
             objs == progress_bar(yield_jsons(in.json_files, ok))
             filtered_new == SelectSeq(objs, Check)
         IN /\ Truthy(args.single) => listing = <<>>
            /\ ~Truthy(args.single) => singleOk
            /\ dirFiles' = listing
            /\ json_files' = in.json_files
            /\ new_json_objs' = objs
            /\ corrected' = in.corrected
            /\ printed' = <<Len(objs), Len(filtered_new)>>
            /\ jsons' = filtered_new
            /\ log' = log \o in.effects \o EventsOf("from_file", in.json_files)
    /\ pc' = "create_cases"
    /\ UNCHANGED <<disk, stored, disk0, runs, args, cfg, raised, fault, cases,
                   loaded, records, handles>>

\* create_cases, called from main line 183.
create_cases ==
    /\ pc = "create_cases" /\ ~raised
    /\ LET case_objs == correct_reference_transcripts(progress_bar(yield_cases(jsons)))
       IN /\ cases' = case_objs
          /\ IF DumpEnabled(cfg)
             THEN /\ disk' = pickle_dump(disk, CLEANED, case_objs)
                  /\ stored' = [stored EXCEPT ![CLEANED] = case_objs]
                  /\ \E reclaimed \in BOOLEAN :
                       handles' = open_unclosed(handles, CLEANED, reclaimed)
                  /\ log' = log \o EventsOf("Case", Ids(jsons))
                                \o <<Ev("correct_reference_transcripts", 0),
                                     Ev("dump_cleaned", 0)>>
             ELSE /\ UNCHANGED <<disk, stored, handles>>
                  /\ log' = log \o EventsOf("Case", Ids(jsons))
                                \o <<Ev("correct_reference_transcripts", 0)>>
    /\ pc' = "entry"
    /\ UNCHANGED <<disk0, dirFiles, runs, args, cfg, raised, fault, json_files,
                   new_json_objs, corrected, printed, jsons, loaded, records>>

\* main, lines 185-186: open the checkpoint and unpickle it.  A missing or
\* undecodable file raises.
load_pickle ==
    /\ pc = "branch" /\ ~raised
    /\ ~FreshBranch(args)
    /\ handles' = with_open(handles, args.pickle)
    /\ IF Loadable(disk, args.pickle)
       THEN /\ cases' = pickle_load(disk, args.pickle)
            /\ loaded' = cases'
            /\ log' = Append(log, Ev("load", 0))
            /\ pc' = "entry"
            /\ raised' = FALSE
       ELSE /\ raised' = TRUE
            /\ UNCHANGED <<cases, loaded, log, pc>>
    /\ UNCHANGED <<disk, stored, disk0, dirFiles, runs, args, cfg, fault,
                   json_files, new_json_objs, corrected, printed, jsons, records>>

\* phenomize, called from main line 189.
phenomize ==
    /\ pc = "entry" /\ ~raised
    /\ EntryIsPheno(args)
    /\ \E failAt \in 0..Len(cases) :
         LET r == yield_phenomized(cases, failAt)
         IN /\ fault' = [fault EXCEPT !.phenomize = failAt]
            /\ cases' = r.cases
            /\ raised' = r.raised
            /\ IF r.raised
               THEN /\ log' = log \o EventsOf("phenomize", r.calls)
                    /\ UNCHANGED <<disk, stored, pc, handles>>
               ELSE /\ pc' = "convert"
                    /\ IF DumpEnabled(cfg)
                       THEN /\ disk' = pickle_dump(disk, PHENOMIZED, r.cases)
                            /\ stored' = [stored EXCEPT ![PHENOMIZED] = r.cases]
                            /\ \E reclaimed \in BOOLEAN :
                                 handles' = open_unclosed(handles, PHENOMIZED, reclaimed)
                            /\ log' = log \o EventsOf("phenomize", r.calls)
                                          \o <<Ev("dump_phenomized", 0)>>
                       ELSE /\ UNCHANGED <<disk, stored, handles>>
                            /\ log' = log \o EventsOf("phenomize", r.calls)
    /\ UNCHANGED <<disk0, dirFiles, runs, args, cfg, json_files, new_json_objs,
                   corrected, printed, jsons, loaded, records>>

\* convert_to_old_format, called from main line 191; main returns after it.
\* Line 165 reads conversion.output_path when --output is empty.
convert_to_old_format ==
    /\ ~raised
    /\ ConvertNext(pc, args)
    /\ IF fault.config = "conversion.output_path" /\ ~Truthy(args.output)
       THEN /\ raised' = TRUE
            /\ pc' = "export"
            /\ UNCHANGED <<fault, records, log>>
       ELSE \E failAt \in 0..Len(cases) :
              LET r == yield_old_json(cases, Destination(args), failAt)
              IN /\ fault' = [fault EXCEPT !.export = failAt]
                 /\ records' = r.saved
                 /\ log' = log \o EventsOf("save_json",
                                 Ids([k \in 1..Len(r.saved) |-> r.saved[k].case]))
                 /\ raised' = r.raised
                 /\ pc' = IF r.raised THEN "export" ELSE "done"
    /\ UNCHANGED <<disk, stored, disk0, dirFiles, runs, args, cfg, json_files,
                   new_json_objs, corrected, printed, jsons, cases, loaded,
                   handles>>

\* The process has exited, which closes every file it left open; the
\* operator starts the script again in the same working directory.
NewRun ==
    /\ Terminated
    /\ runs < MaxRuns
    /\ runs' = runs + 1
    /\ disk0' = disk
    /\ args' = DefaultArgs
    /\ cfg' = NoConfig
    /\ pc' = "main"
    /\ raised' = FALSE
    /\ fault' = NoFault
    /\ dirFiles' = <<>>
    /\ json_files' = <<>>
    /\ new_json_objs' = <<>>
    /\ corrected' = None
    /\ printed' = <<>>
    /\ jsons' = <<>>
    /\ cases' = <<>>
    /\ loaded' = <<>>
    /\ records' = <<>>
    /\ log' = <<>>
    /\ handles' = {}
    /\ UNCHANGED <<disk, stored>>

Next ==
    \/ main_start
    \/ create_jsons
    \/ create_cases
    \/ load_pickle
    \/ phenomize
    \/ convert_to_old_format
    \/ NewRun

Spec == Init /\ [][Next]_vars

\* ------------------------------------------------------------------------
\* Derived notions used by the properties
\* ------------------------------------------------------------------------
TypeOK ==
    /\ pc \in {"main", "branch", "create_cases", "entry", "convert", "export", "done"}
    /\ raised \in BOOLEAN
    /\ runs \in 1..MaxRuns

\* The run is past the branch of main line 181.
PastBranch == pc \notin {"main", "branch"}

Positions(op) == {k \in 1..Len(log) : log[k].op = op}
Count(op) == Cardinality(Positions(op))
AllBefore(opA, opB) == \A a \in Positions(opA), b \in Positions(opB) : a < b
IdsOf(op) == Ids(SelectSeq(log, LAMBDA e : e.op = op))

\* The collection a run starts phenomization or export with.
BuiltOrLoaded == IF FreshBranch(args) THEN cases ELSE loaded

\* ------------------------------------------------------------------------
\* C1..C4
\* ------------------------------------------------------------------------
AcquireBuildOps ==
    {"sync", "listdir", "from_file", "Case", "correct_reference_transcripts"}

\* C1: in a run given a checkpoint path with --pickle, no acquisition,
\* parse/filter or case-building operation runs (no sync, no directory
\* listing, no submission load, no case construction, no batch correction),
\* and the collection handed to the next stage is the collection stored in
\* the checkpoint, case by case in the same order.
C1_ResumeSkipsBuild ==
    Truthy(args.pickle) =>
        /\ \A k \in 1..Len(log) : log[k].op \notin AcquireBuildOps
        /\ dirFiles = <<>> /\ new_json_objs = <<>> /\ jsons = <<>>
        /\ printed = <<>>
        /\ (pc = "entry" /\ ~raised) => cases = stored[args.pickle]

C1_Witness ==
    /\ Truthy(args.pickle)
    /\ pc = "entry" /\ ~raised
    /\ Len(cases) >= 2
    /\ cfg.download

\* C2: when the phenotype service raises for a case, the run aborts: no
\* later case is phenomized, this run writes no post-phenomization
\* checkpoint even with dump_intermediate enabled, and no legacy record is
\* exported.
C2_PhenomizeFailureAborts ==
    fault.phenomize # 0 =>
        /\ raised
        /\ pc = "entry"
        /\ Count("phenomize") = fault.phenomize
        /\ \A k \in fault.phenomize..Len(cases) :
             IF FreshBranch(args) THEN ~cases[k].pheno ELSE cases[k] = loaded[k]
        /\ Count("dump_phenomized") = 0
        /\ disk[PHENOMIZED] = disk0[PHENOMIZED]
        /\ records = <<>>
        /\ Count("save_json") = 0

C2_Witness ==
    /\ fault.phenomize = 1
    /\ Len(cases) >= 2
    /\ cfg.dump_intermediate
    /\ raised

\* C3: create_jsons reports an unfiltered count equal to the number of input
\* files and a filtered count equal to the number of submissions whose
\* structural check passed; the filtered count never exceeds the unfiltered
\* one, the returned list holds exactly the passing submissions in input-file
\* order, and a failing check does not abort the run.
C3_FilterCounts ==
    (FreshBranch(args) /\ PastBranch) =>
        /\ Len(printed) = 2
        /\ printed[1] = Len(json_files)
        /\ Len(new_json_objs) = Len(json_files)
        /\ \A k \in 1..Len(json_files) : new_json_objs[k].id = json_files[k]
        /\ printed[2] = Cardinality({k \in 1..Len(new_json_objs) : new_json_objs[k].ok})
        /\ printed[2] <= printed[1]
        /\ Len(jsons) = printed[2]
        /\ \A m \in 1..Len(jsons) : jsons[m].ok
        /\ \A k \in 1..Len(new_json_objs) :
             new_json_objs[k].ok => \E m \in 1..Len(jsons) : jsons[m] = new_json_objs[k]
        /\ \A m \in 1..Len(jsons) : \E k \in 1..Len(new_json_objs) : jsons[m] = new_json_objs[k]
        /\ \A m, n \in 1..Len(jsons) : m < n => jsons[m].id < jsons[n].id
        /\ ~Truthy(args.single) =>
             /\ printed[1] = Cardinality({k \in 1..Len(dirFiles) : dirFiles[k] # "txt"})
             /\ printed[2] = Cardinality({k \in 1..Len(dirFiles) : dirFiles[k] = "pass"})
        /\ pc = "create_cases" => ~raised

C3_Witness ==
    /\ FreshBranch(args)
    /\ pc = "create_cases"
    /\ printed = <<2, 1>>
    /\ ~raised

\* C4 as stated: in every run given --single <file>, exactly one submission
\* is considered, the directory is not scanned and the override directory is
\* never consulted.
C4_AsStated ==
    (Truthy(args.single) /\ PastBranch) =>
        /\ Len(new_json_objs) = 1
        /\ Count("from_file") = 1
        /\ Count("listdir") = 0
        /\ Count("read_corrected_location") = 0

\* C4, amended: in every run given --single <file> that does not resume from
\* a checkpoint, exactly one submission is considered (the one loaded from
\* that file), the directory is not scanned (and not synced), and the
\* override directory is never consulted: from_file is handed "".
C4_SingleBypassesDirectory ==
    (Truthy(args.single) /\ FreshBranch(args) /\ PastBranch) =>
        /\ json_files = <<SingleId>>
        /\ Len(new_json_objs) = 1
        /\ new_json_objs[1].id = SingleId
        /\ IdsOf("from_file") = <<SingleId>>
        /\ Count("listdir") = 0
        /\ Count("sync") = 0
        /\ Count("read_corrected_location") = 0
        /\ corrected = ""
        /\ dirFiles = <<>>

C4_Witness ==
    /\ Truthy(args.single)
    /\ FreshBranch(args)
    /\ pc = "create_cases"
    /\ cfg.download
    /\ Len(new_json_objs) = 1

\* ------------------------------------------------------------------------
\* C5..C10
\* ------------------------------------------------------------------------

\* C5 as stated: a checkpoint is written only when dump_intermediate is
\* enabled; with it enabled a fresh run that completes writes exactly two
\* checkpoints, the post-build one after the batch correction and before the
\* first phenomization call, the post-phenomization one after the last
\* phenomization call and before the first export.
C5_AsStated ==
    /\ ~cfg.dump_intermediate =>
         /\ Count("dump_cleaned") = 0
         /\ Count("dump_phenomized") = 0
         /\ disk = disk0
    /\ (cfg.dump_intermediate /\ FreshBranch(args) /\ pc = "done") =>
         /\ Count("dump_cleaned") = 1
         /\ Count("dump_phenomized") = 1
         /\ AllBefore("correct_reference_transcripts", "dump_cleaned")
         /\ AllBefore("dump_cleaned", "phenomize")
         /\ AllBefore("phenomize", "dump_phenomized")
         /\ AllBefore("dump_phenomized", "save_json")

\* The orchestrator state of section 4.8 as a number: START, BUILT,
\* PHENOMIZED (or the skip target), EXPORTED.
StateRank ==
    CASE pc \in {"main", "branch", "create_cases"} -> 0
      [] pc = "entry" -> 1
      [] pc \in {"convert", "export"} -> 2
      [] pc = "done" -> 3

\* The position of the run in main, in statement order.
PcPos ==
    CASE pc = "main" -> 0
      [] pc = "branch" -> 1
      [] pc = "create_cases" -> 2
      [] pc = "entry" -> 3
      [] pc \in {"convert", "export"} -> 4
      [] pc = "done" -> 5

\* The stage an operation belongs to.
OpStage(op) ==
    CASE op \in {"sync", "listdir", "read_corrected_location", "from_file", "load"} -> 0
      [] op \in {"Case", "correct_reference_transcripts", "dump_cleaned"} -> 1
      [] op \in {"phenomize", "dump_phenomized"} -> 2
      [] op = "save_json" -> 3

\* C6: within a run the orchestrator state only moves forward along START,
\* BUILT, PHENOMIZED, EXPORTED; no stage runs twice (no operation is repeated
\* for the same file or case), no operation of a stage follows an operation
\* of a later stage, and once EXPORTED is reached there is no further stage
\* operation, checkpoint write or service call.
C6_ForwardOnly ==
    /\ [](/\ \A k, m \in 1..Len(log) : k < m => OpStage(log[k].op) <= OpStage(log[m].op)
          /\ \A k, m \in 1..Len(log) : k < m => log[k] # log[m])
    /\ [][runs' = runs =>
            /\ StateRank' >= StateRank
            /\ PcPos' > PcPos \/ (raised' /\ ~raised)
            /\ pc = "done" => UNCHANGED <<log, disk, stored, records, cases>>]_vars

C6_Witness ==
    /\ pc = "done"
    /\ Count("phenomize") >= 2
    /\ Count("dump_cleaned") = 1
    /\ Count("dump_phenomized") = 1
    /\ Count("save_json") >= 2

\* C7: in a run resumed from a checkpoint with an --entry other than
\* "pheno", the phenotype service is never called, no post-phenomization
\* checkpoint is written and export receives exactly the loaded collection;
\* with --entry "pheno" the phenomization stage runs over the loaded
\* collection before anything is exported.
C7_EntryGatesPhenomization ==
    (Truthy(args.pickle) /\ PastBranch) =>
        IF args.entry # "pheno"
        THEN /\ Count("phenomize") = 0
             /\ Count("dump_phenomized") = 0
             /\ disk = disk0
             /\ cases = loaded
             /\ \A k \in 1..Len(records) : records[k].case = loaded[k]
             /\ pc = "done" => Len(records) = Len(loaded)
        ELSE /\ pc \in {"convert", "export", "done"} =>
                  /\ IdsOf("phenomize") = Ids(loaded)
                  /\ cases = [k \in 1..Len(loaded) |-> [loaded[k] EXCEPT !.pheno = TRUE]]
             /\ AllBefore("phenomize", "save_json")
             /\ \A k \in 1..Len(records) : records[k].case.pheno

C7_Witness ==
    /\ Truthy(args.pickle)
    /\ args.entry # "pheno"
    /\ pc = "done"
    /\ Len(records) >= 2
    /\ cfg.dump_intermediate

\* C8 as stated: in a run without --pickle every case of the built
\* collection is phenomized before any case is exported, whatever --entry is.
C8_AsStated ==
    (args.pickle = None /\ Len(records) > 0) =>
        /\ Count("phenomize") = Len(cases)
        /\ \A k \in 1..Len(cases) : cases[k].pheno
        /\ AllBefore("phenomize", "save_json")

C10_OneRecordPerCase ==
    pc = "done" =>
        /\ Len(records) = Len(cases)
        /\ \A k \in 1..Len(cases) : records[k].case = cases[k]
        /\ IdsOf("save_json") = Ids(cases)
        /\ FreshBranch(args) =>
             Len(records) = Cardinality({k \in 1..Len(new_json_objs) : new_json_objs[k].ok})
        /\ ~FreshBranch(args) => Len(records) = Len(loaded)

C10_Witness ==
    /\ pc = "done"
    /\ FreshBranch(args)
    /\ Len(new_json_objs) > Len(records)
    /\ Len(records) >= 1

\* ------------------------------------------------------------------------
\* C11..C14
\* ------------------------------------------------------------------------

\* C11 as stated: a run resumed from the post-phenomization checkpoint
\* case_phenomized.p with the default --entry does not call the phenotype
\* service again for the loaded cases.
C11_AsStated ==
    (args.pickle = PHENOMIZED /\ args.entry = "pheno" /\ PastBranch) =>
        Count("phenomize") = 0

\* The run has returned from create_cases.
Built == FreshBranch(args) /\ PcPos >= 3

\* C12: in a fresh run the batch reference-transcript correction is invoked
\* exactly once, over the entire collection, after the last case has been
\* constructed, before the first phenomization call and before the
\* post-build checkpoint is written.
C12_OneBatchCorrection ==
    /\ Built =>
         /\ Count("correct_reference_transcripts") = 1
         /\ AllBefore("Case", "correct_reference_transcripts")
         /\ AllBefore("correct_reference_transcripts", "phenomize")
         /\ AllBefore("correct_reference_transcripts", "dump_cleaned")
         /\ \A k \in 1..Len(cases) : cases[k].corrected
         /\ cfg.dump_intermediate =>
              \A k \in 1..Len(stored[CLEANED]) : stored[CLEANED][k].corrected
    /\ ~Built => Count("correct_reference_transcripts") = 0

C12_Witness ==
    /\ Built
    /\ pc = "done"
    /\ Count("Case") >= 2
    /\ Count("phenomize") >= 2
    /\ Count("dump_cleaned") = 1

\* C13: the collection create_cases returns holds exactly one case per
\* accepted submission, in the order of the accepted submissions; its length
\* is the filtered count, no accepted submission is dropped and none yields
\* two cases.
C13_OneCasePerSubmission ==
    Built =>
        /\ Len(cases) = Len(jsons)
        /\ Len(cases) = printed[2]
        /\ \A k \in 1..Len(jsons) : cases[k].id = jsons[k].id
        /\ IdsOf("Case") = Ids(jsons)
        /\ \A k, m \in 1..Len(cases) : k # m => cases[k].id # cases[m].id
        /\ \A k \in 1..Len(new_json_objs) :
             new_json_objs[k].ok =>
                 Cardinality({m \in 1..Len(cases) : cases[m].id = new_json_objs[k].id}) = 1

C13_Witness ==
    /\ Built
    /\ pc = "entry"
    /\ Len(cases) >= 2
    /\ printed[2] = Len(cases)

\* C14: when the phenomization stage completes, the phenotype service has
\* been called exactly once per case of the collection, in collection
\* order, and the collection phenomize returns is the collection it was
\* given: the same cases in the same order, each now phenomized.
C14_OneCallPerCase ==
    (args.entry = "pheno" /\ pc \in {"convert", "export", "done"}) =>
        /\ fault.phenomize = 0
        /\ IdsOf("phenomize") = Ids(cases)
        /\ Count("phenomize") = Len(cases)
        /\ \A k \in 1..Len(cases) : cases[k].pheno
        /\ FreshBranch(args) =>
             /\ Ids(cases) = Ids(jsons)
             /\ \A k \in 1..Len(cases) : cases[k].corrected
        /\ ~FreshBranch(args) =>
             /\ Len(cases) = Len(loaded)
             /\ \A k \in 1..Len(cases) :
                  /\ cases[k].id = loaded[k].id
                  /\ cases[k].corrected = loaded[k].corrected

C14_Witness ==
    /\ args.entry = "pheno"
    /\ pc = "convert"
    /\ Len(cases) >= 2
    /\ Count("phenomize") = Len(cases)

\* ------------------------------------------------------------------------
\* C15..C16
\* ------------------------------------------------------------------------

\* C15: when building or saving the legacy record of a case fails, the run
\* aborts at that case: the records of the earlier cases stay written, no
\* record of a later case is written, and the checkpoints are left as they
\* were when the export began.
C15_ExportFailureKeepsEarlier ==
    /\ [](fault.export # 0 =>
            /\ raised
            /\ pc = "export"
            /\ Len(records) = fault.export - 1
            /\ \A k \in 1..Len(records) : records[k].case = cases[k]
            /\ IdsOf("save_json") = SubSeq(Ids(cases), 1, fault.export - 1)
            /\ Count("dump_cleaned") = 1 => disk[CLEANED].exists
            /\ Count("dump_phenomized") = 1 =>
                 /\ disk[PHENOMIZED].exists
                 /\ stored[PHENOMIZED] = cases)
    /\ [][(runs' = runs /\ fault.export = 0 /\ fault'.export # 0) =>
            UNCHANGED <<disk, stored, cases>>]_vars

C15_Witness ==
    /\ fault.export = 2
    /\ Len(records) = 1
    /\ Len(cases) >= 2
    /\ Count("dump_cleaned") = 1
    /\ Count("dump_phenomized") = 1

\* C16: a missing required configuration setting is fatal at startup: the
\* run aborts before any stage side effect (no sync, no case construction,
\* no service call, no checkpoint write, no exported record), also when the
\* setting is first needed by a late stage such as conversion.output_path.
C16_MissingSettingFatalAtStartup ==
    fault.config # "" =>
        /\ raised
        /\ pc = "main"
        /\ log = <<>>
        /\ cases = <<>> /\ jsons = <<>> /\ records = <<>>
        /\ disk = disk0

C16_Witness ==
    /\ fault.config = "conversion.output_path"
    /\ raised
    /\ runs = 2
    /\ disk[CLEANED].exists

\* ------------------------------------------------------------------------
\* C17..C19
\* ------------------------------------------------------------------------

\* C17 as stated: every checkpoint file handle the run opens is released by
\* the operation that opened it, on every exit path; none is open when the
\* next stage starts or when the run ends.
C17_AsStated == handles = {}

\* C18 as stated: a run resumed with --pickle from the post-build checkpoint
\* and --entry "pheno" performs the same phenomization calls and writes the
\* same legacy records as the uninterrupted fresh run that wrote that
\* checkpoint: either run, once complete, has called the service for exactly
\* the cases of the checkpoint, in order, and has saved one record per
\* phenomized case of the checkpoint.
C18_AsStated ==
    LET ck == pickle_loads(disk[CLEANED].bytes)
        ph == [k \in 1..Len(ck) |-> [ck[k] EXCEPT !.pheno = TRUE]]
    IN ((\/ Built /\ DumpEnabled(cfg)
         \/ args.pickle = CLEANED /\ args.entry = "pheno")
        /\ pc = "done") =>
           /\ IdsOf("phenomize") = Ids(ck)
           /\ records = [k \in 1..Len(ck) |-> OldJson(ph[k], Destination(args))]

\* C19: across any sequence of fresh and resumed runs, a post-phenomization
\* checkpoint on disk holds a collection in which every case has been
\* phenomized, and a phenomization pass that fails writes nothing; the
\* post-build checkpoint written by a run holds the collection as it was
\* before the first phenomization call of that run (the cases the run built,
\* corrected, none of them phenomized) and phenomization leaves it alone.
C19_CheckpointsHoldStageResults ==
    /\ [](/\ disk[PHENOMIZED].exists =>
               /\ Unpicklable(disk[PHENOMIZED].bytes)
               /\ \A k \in 1..Len(pickle_load(disk, PHENOMIZED)) :
                      pickle_load(disk, PHENOMIZED)[k].pheno
          /\ (Built /\ DumpEnabled(cfg)) =>
               /\ Loadable(disk, CLEANED)
               /\ Ids(pickle_load(disk, CLEANED)) = Ids(cases)
               /\ \A k \in 1..Len(pickle_load(disk, CLEANED)) :
                      /\ pickle_load(disk, CLEANED)[k].corrected
                      /\ ~pickle_load(disk, CLEANED)[k].pheno)
    /\ [][(runs' = runs /\ pc = "entry") =>
            /\ disk'[CLEANED] = disk[CLEANED]
            /\ raised' => disk' = disk]_vars

\* A second run has built and saved two cases and its phenomization pass
\* failed after the first of them, with the post-phenomization checkpoint of
\* the first run on disk.
C19_Witness ==
    /\ runs = 2
    /\ Built /\ DumpEnabled(cfg)
    /\ pc = "entry" /\ raised
    /\ fault.phenomize = 2
    /\ Len(cases) = 2
    /\ cases[1].pheno /\ ~cases[2].pheno
    /\ disk[PHENOMIZED].exists
    /\ Len(pickle_load(disk, PHENOMIZED)) >= 1

====
